---- MODULE Spec2Model ----
\* Model of chef_validator.engine.clients.nova.NovaClientPlugin: the server
\* reads (get_server, fetch_server, refresh_server), the status checks
\* (_check_active, check_delete_server_complete) and the provider they read.
\*
\* Python strings that the code takes apart (server.status) are sequences of
\* one-character strings; strings that are only compared or formatted whole
\* (task state, fault fields, names) are TLA+ strings.
EXTENDS Integers, Sequences, FiniteSets, TLC

----------------------------------------------------------------------------
\* Bounds

\* longest "(..." suffix a provider appends to a status
MaxSuffixLen == 2

----------------------------------------------------------------------------
\* Status vocabulary

BUILD == <<"B", "U", "I", "L", "D">>
HARD_REBOOT == <<"H", "A", "R", "D", "_", "R", "E", "B", "O", "O", "T">>
PASSWORD == <<"P", "A", "S", "S", "W", "O", "R", "D">>
REBOOT == <<"R", "E", "B", "O", "O", "T">>
RESCUE == <<"R", "E", "S", "C", "U", "E">>
RESIZE == <<"R", "E", "S", "I", "Z", "E">>
REVERT_RESIZE == <<"R", "E", "V", "E", "R", "T", "_", "R", "E", "S", "I", "Z", "E">>
SHUTOFF == <<"S", "H", "U", "T", "O", "F", "F">>
SUSPENDED == <<"S", "U", "S", "P", "E", "N", "D", "E", "D">>
VERIFY_RESIZE == <<"V", "E", "R", "I", "F", "Y", "_", "R", "E", "S", "I", "Z", "E">>
ACTIVE == <<"A", "C", "T", "I", "V", "E">>
ERROR == <<"E", "R", "R", "O", "R">>
DELETED == <<"D", "E", "L", "E", "T", "E", "D">>
SOFT_DELETED == <<"S", "O", "F", "T", "_", "D", "E", "L", "E", "T", "E", "D">>
\* a status the client has no branch for
PAUSED == <<"P", "A", "U", "S", "E", "D">>

\* statuses spelled in lower case
active == <<"a", "c", "t", "i", "v", "e">>
build == <<"b", "u", "i", "l", "d">>
deleted == <<"d", "e", "l", "e", "t", "e", "d">>

\* str.upper() on the letters of these statuses
UpperChar(c) ==
    CASE c = "a" -> "A" [] c = "b" -> "B" [] c = "c" -> "C" [] c = "d" -> "D"
      [] c = "e" -> "E" [] c = "i" -> "I" [] c = "l" -> "L" [] c = "t" -> "T"
      [] c = "u" -> "U" [] c = "v" -> "V" [] OTHER -> c

ToUpper(str) == [i \in 1..Len(str) |-> UpperChar(str[i])]

deferred_server_statuses_short ==
    << BUILD, HARD_REBOOT, PASSWORD, REBOOT, RESCUE, RESIZE, REVERT_RESIZE,
       SHUTOFF, SUSPENDED >>

deferred_server_statuses ==
    << BUILD, HARD_REBOOT, PASSWORD, REBOOT, RESCUE, RESIZE, REVERT_RESIZE,
       SHUTOFF, SUSPENDED, VERIFY_RESIZE >>

\* Python's "x in list"
InList(x, list) == \E i \in 1..Len(list) : list[i] = x

----------------------------------------------------------------------------
\* Python values

None == "None"
True == "True"
False == "False"
\* a key a dict does not have, an attribute an object does not have
Missing == "<missing>"
\* an attribute holding a number that the object does not have (and None
\* where a number is expected)
NoAttr == -1

\* the module-level name "resource" is bound to None
resource == None

\* the server objects of novaclient: id, name, status, OS-EXT-STS:task_state
\* and fault (attr = FALSE: the object has no fault attribute)
NoFault == [attr |-> FALSE, message |-> Missing, code |-> Missing]
NoServer == [id |-> None, name |-> None, status |-> <<>>,
             task_state |-> None, fault |-> NoFault]

\* the arguments of an exception: a status and the pieces of its message
NoDetail == [status |-> <<>>, reason |-> <<>>]
\* an exception object: its class, its http_status and code attributes and
\* the arguments it was built with
Exc(cls, http_status, code, detail) ==
    [cls |-> cls, http_status |-> http_status, code |-> code, detail |-> detail]
NoExc == Exc(None, NoAttr, NoAttr, NoDetail)

\* novaclient.exceptions: the classes and their base classes
Bases(cls) ==
    CASE cls = "OverLimit" -> {"OverLimit", "ClientException", "Exception"}
      [] cls = "NotFound" -> {"NotFound", "ClientException", "Exception"}
      [] cls = "BadRequest" -> {"BadRequest", "ClientException", "Exception"}
      [] cls = "Conflict" -> {"Conflict", "ClientException", "Exception"}
      [] cls = "HTTPNotImplemented" ->
             {"HTTPNotImplemented", "ClientException", "Exception"}
      [] cls = "ClientException" -> {"ClientException", "Exception"}
      [] OTHER -> {cls, "Exception"}

isinstance(ex, cls) == cls \in Bases(ex.cls)

\* getattr(obj, name, default) on the two attributes the code reads this way
getattr(ex, name, default) ==
    CASE name = "http_status" ->
             IF ex.http_status = NoAttr THEN default ELSE ex.http_status
      [] name = "code" -> IF ex.code = NoAttr THEN default ELSE ex.code

\* the errors a read of the provider ends in: the class novaclient maps the
\* response to, and the response's HTTP status in code (and in http_status,
\* for the classes that define it)
OverLimitExc == Exc("OverLimit", 413, 413, NoDetail)
NotFoundExc == Exc("NotFound", 404, 404, NoDetail)
BadRequestExc == Exc("BadRequest", 400, 400, NoDetail)
ConflictExc == Exc("Conflict", 409, 409, NoDetail)
NotImplementedExc == Exc("HTTPNotImplemented", 501, 501, NoDetail)
ServerFault500 == Exc("ClientException", NoAttr, 500, NoDetail)
ServerFault503 == Exc("ClientException", NoAttr, 503, NoDetail)
\* not a novaclient error at all
ConnectionRefused == Exc("ConnectionError", NoAttr, NoAttr, NoDetail)

ReadErrors == { OverLimitExc, BadRequestExc, ConflictExc, NotImplementedExc,
                ServerFault500, ServerFault503, ConnectionRefused }

\* what a call does: return a value or raise; server is the server object
\* the call returned or left behind, reads counts the provider reads it made,
\* and status is the status it classified (when classified is TRUE)
Return(ret, server) ==
    [kind |-> "return", ret |-> ret, exc |-> NoExc, server |-> server,
     reads |-> 0, classified |-> FALSE, status |-> <<>>]
Raise(exc, server) ==
    [kind |-> "raise", ret |-> None, exc |-> exc, server |-> server,
     reads |-> 0, classified |-> FALSE, status |-> <<>>]
AfterRead(r) == [r EXCEPT !.reads = @ + 1]
Classified(r, status) == [r EXCEPT !.classified = TRUE, !.status = status]

----------------------------------------------------------------------------
\* The provider

ServerIds == {"1234"}

Suffixes ==
    { s \in UNION { [1..n -> {"(", "f"}] : n \in 1..MaxSuffixLen } : s[1] = "(" }

\* the statuses a provider reports
PlainStatuses ==
    { BUILD, HARD_REBOOT, PASSWORD, REBOOT, RESCUE, RESIZE, REVERT_RESIZE,
      SHUTOFF, SUSPENDED, VERIFY_RESIZE, ACTIVE, ERROR, DELETED, SOFT_DELETED,
      PAUSED }

StatusValues ==
    PlainStatuses \cup { active, build, deleted }
        \cup { b \o s : b \in {ACTIVE, BUILD, ERROR, DELETED, <<>>},
                        s \in Suffixes }

TaskStates == { None, "deleting" }

Faults == { NoFault,
            [attr |-> TRUE, message |-> Missing, code |-> Missing],
            [attr |-> TRUE, message |-> "No valid host", code |-> Missing],
            [attr |-> TRUE, message |-> "No valid host", code |-> "500"] }

Gone == [exists |-> FALSE, status |-> <<>>, task_state |-> None,
         fault |-> NoFault]

\* the provider reports a fault only for a server in error
ProviderStates ==
    { Gone }
        \cup { [exists |-> TRUE, status |-> s, task_state |-> t,
                fault |-> NoFault] : s \in StatusValues, t \in TaskStates }
        \cup { [exists |-> TRUE, status |-> ERROR, task_state |-> t,
                fault |-> f] : t \in TaskStates, f \in Faults }

VARIABLES
    provider,   \* server id -> what the provider reports for it
    held,       \* the server object the caller holds (NoServer: none)
    last,       \* the last call and its outcome (op = None: none yet)
    nova_metadata,  \* the metadata the provider keeps for the server
    console,    \* the ConsoleUrls object and the remote calls made for it
    olast,      \* the last call of another operation and its outcome
    pollers     \* poller -> where its call, or its poll loop, stands

vars == <<provider, held, last, nova_metadata, console, olast, pollers>>

\* the state of the polling calls and the state of the other operations
pollVars == <<provider, held, last>>
opsVars == <<nova_metadata, console, olast>>

----------------------------------------------------------------------------
\* The reads

\* client().servers.get(id) and server.get(): err is the failure the request
\* ends in (NoExc: the provider answers)
servers_get(prov, id, err) ==
    IF err # NoExc THEN Raise(err, NoServer)
    ELSE IF ~prov[id].exists THEN Raise(NotFoundExc, NoServer)
    ELSE Return("Server", [id |-> id, name |-> "server-" \o id,
                           status |-> prov[id].status,
                           task_state |-> prov[id].task_state,
                           fault |-> prov[id].fault])

is_not_found(ex) == isinstance(ex, "NotFound")

EntityNotFound(entity, name) ==
    Exc("EntityNotFound", NoAttr, NoAttr,
        [status |-> <<>>, reason |-> <<entity, name>>])

get_server_absent(prov, server, err) ==
    LET r == AfterRead(servers_get(prov, server, err)) IN
    IF r.kind = "raise" /\ isinstance(r.exc, "NotFound")
    THEN AfterRead(Return(None, NoServer))
    ELSE r

get_server(prov, server, err) ==
    LET r == AfterRead(servers_get(prov, server, err)) IN
    IF r.kind = "raise" /\ isinstance(r.exc, "NotFound")
    THEN [r EXCEPT !.exc = EntityNotFound("Server", server)]
    ELSE r

ExcHttpStatus_attr_only(exc) == getattr(exc, "http_status", NoAttr)

\* the http status the two except clauses of the reads test
ExcHttpStatus(exc) == getattr(exc, "http_status", getattr(exc, "code", NoAttr))

fetch_server(prov, server_id, err) ==
    LET r == AfterRead(servers_get(prov, server_id, err)) IN
    IF r.kind = "return" THEN r
    ELSE IF isinstance(r.exc, "OverLimit")
    THEN AfterRead(Return(None, NoServer))
    ELSE IF isinstance(r.exc, "ClientException")
    THEN IF ExcHttpStatus(r.exc) \in {500, 503}
         THEN AfterRead(Return(None, NoServer))
         ELSE r
    ELSE r

refresh_server_reraise(prov, server, err) ==
    LET r == AfterRead(servers_get(prov, server.id, err)) IN
    IF r.kind = "return" THEN AfterRead(Return(None, r.server))
    ELSE IF isinstance(r.exc, "OverLimit")
    THEN AfterRead(Return(None, server))
    ELSE [r EXCEPT !.server = server]

\* server.get() overwrites the attributes of the object it is called on
refresh_server(prov, server, err) ==
    LET r == AfterRead(servers_get(prov, server.id, err)) IN
    IF r.kind = "return" THEN AfterRead(Return(None, r.server))
    ELSE IF isinstance(r.exc, "OverLimit")
    THEN AfterRead(Return(None, server))
    ELSE IF isinstance(r.exc, "ClientException")
    THEN IF ExcHttpStatus(r.exc) \in {500, 503}
         THEN AfterRead(Return(None, server))
         ELSE [r EXCEPT !.server = server]
    ELSE [r EXCEPT !.server = server]

----------------------------------------------------------------------------
\* The status checks

\* str.split(sep)[0]: the characters before the first sep
RECURSIVE SplitFirst(_, _)
SplitFirst(str, sep) ==
    IF str = <<>> \/ Head(str) = sep THEN <<>>
    ELSE <<Head(str)>> \o SplitFirst(Tail(str), sep)

get_status_whole(server) == server.status

get_status_upper(server) == ToUpper(SplitFirst(server.status, "("))

get_status(server) == SplitFirst(server.status, "(")

\* dict.get(key, default) on a fault
FaultGet(fault, key, default) ==
    LET v == IF key = "message" THEN fault.message ELSE fault.code IN
    IF v = Missing THEN default ELSE v

\* getattr(server, 'fault', {})
ServerFault(server) ==
    IF server.fault.attr THEN server.fault
    ELSE [attr |-> TRUE, message |-> Missing, code |-> Missing]

AttributeError ==
    Exc("AttributeError", NoAttr, NoAttr,
        [status |-> <<>>, reason |-> <<"NoneType">>])

\* resource.<name>(...): looking the class up on None raises before the
\* exception is built
ResourceExc(cls, resource_status, reason) ==
    IF resource = None THEN AttributeError
    ELSE Exc(cls, NoAttr, NoAttr,
             [status |-> resource_status, reason |-> reason])

\* the branches on status of _check_active
ActiveBranches(server, status, res_name) ==
    IF InList(status, deferred_server_statuses) THEN Return(False, server)
    ELSE IF status = ACTIVE THEN Return(True, server)
    ELSE IF status = ERROR
    THEN LET fault == ServerFault(server) IN
         Raise(ResourceExc("ResourceInError", status,
                           << "Message: ", FaultGet(fault, "message", "Unknown"),
                              ", Code: ", FaultGet(fault, "code", "Unknown") >>),
               server)
    ELSE Raise(ResourceExc("ResourceUnknownStatus", server.status,
                           << res_name, " is not active" >>),
               server)

_check_active_always_refresh(prov, is_string, id, obj, err) ==
    IF is_string
    THEN LET f == fetch_server(prov, id, err) IN
         IF f.kind = "raise" THEN f
         ELSE IF f.ret = None THEN [f EXCEPT !.ret = False]
         ELSE LET status == get_status(f.server)
                  r == ActiveBranches(f.server, status, "Server") IN
              Classified([r EXCEPT !.reads = f.reads], status)
    ELSE LET f == refresh_server(prov, obj, err) IN
         IF f.kind = "raise" THEN f
         ELSE LET status2 == get_status(f.server)
                  r == ActiveBranches(f.server, status2, "Server") IN
              Classified([r EXCEPT !.reads = f.reads], status2)

\* _check_active(server): is_string says whether server is an identifier
\* (then id is it) or a server object (then obj is it)
_check_active(prov, is_string, id, obj, err) ==
    IF is_string
    THEN LET f == fetch_server(prov, id, err) IN
         IF f.kind = "raise" THEN f
         ELSE IF f.ret = None THEN [f EXCEPT !.ret = False]
         ELSE LET status == get_status(f.server)
                  r == ActiveBranches(f.server, status, "Server") IN
              Classified([r EXCEPT !.reads = f.reads], status)
    ELSE LET status == get_status(obj) IN
         IF status # ACTIVE
         THEN LET f == refresh_server(prov, obj, err) IN
              IF f.kind = "raise" THEN f
              ELSE LET status2 == get_status(f.server)
                       r == ActiveBranches(f.server, status2, "Server") IN
                   Classified([r EXCEPT !.reads = f.reads], status2)
         ELSE Classified(ActiveBranches(obj, status, "Server"), status)

\* ClientPlugin.ignore_not_found(ex): raises ex unless it is a not-found
\* error
ignore_not_found(ex) == IF is_not_found(ex) THEN NoExc ELSE ex

ServerTaskState_none(server) == None

\* getattr(server, 'OS-EXT-STS:task_state', None)
ServerTaskState(server) == server.task_state

DeleteBranches_deleted_only(server, status) ==
    IF status \in {DELETED} THEN Return(True, server)
    ELSE IF status = ERROR
    THEN Raise(ResourceExc("ResourceInError", status, <<>>), server)
    ELSE Return(False, server)

\* the branches on status of check_delete_server_complete
DeleteBranches(server, status) ==
    IF status \in {DELETED, SOFT_DELETED} THEN Return(True, server)
    ELSE IF status = ERROR
    THEN LET fault == ServerFault(server)
             message == FaultGet(fault, "message", "Unknown")
             code == FaultGet(fault, "code", None) IN
         Raise(ResourceExc("ResourceInError", status,
                           << "Server ", server.name, " delete failed: (",
                              code, ") ", message >>),
               server)
    ELSE Return(False, server)

check_delete_server_complete_gone_false(prov, server_id, err) ==
    LET f == fetch_server(prov, server_id, err) IN
    IF f.kind = "raise"
    THEN IF ignore_not_found(f.exc) # NoExc
         THEN [f EXCEPT !.exc = ignore_not_found(f.exc)]
         ELSE [Return(False, NoServer) EXCEPT !.reads = f.reads]
    ELSE IF f.ret = None THEN [f EXCEPT !.ret = False]
    ELSE IF ServerTaskState(f.server) = "deleting"
    THEN [f EXCEPT !.ret = False]
    ELSE LET status == get_status(f.server)
             r == DeleteBranches(f.server, status) IN
         Classified([r EXCEPT !.reads = f.reads], status)

check_delete_server_complete(prov, server_id, err) ==
    LET f == fetch_server(prov, server_id, err) IN
    IF f.kind = "raise"
    THEN IF ignore_not_found(f.exc) # NoExc
         THEN [f EXCEPT !.exc = ignore_not_found(f.exc)]
         ELSE [Return(True, NoServer) EXCEPT !.reads = f.reads]
    ELSE IF f.ret = None THEN [f EXCEPT !.ret = False]
    ELSE IF ServerTaskState(f.server) = "deleting"
    THEN [f EXCEPT !.ret = False]
    ELSE LET status == get_status(f.server)
             r == DeleteBranches(f.server, status) IN
         Classified([r EXCEPT !.reads = f.reads], status)

----------------------------------------------------------------------------
\* The calls

NoCall ==
    [op |-> None, arg |-> None, id |-> None, prior |-> NoServer,
     readExc |-> NoExc,
     out |-> Return(None, NoServer)]

\* the error the read of a call ended in, if it made one and it failed
ReadOutcome(prov, id, err, reads) ==
    IF reads = 0 THEN NoExc ELSE servers_get(prov, id, err).exc

Called(op, arg, prior, id, err, out) ==
    /\ last = NoCall
    /\ UNCHANGED opsVars
    /\ UNCHANGED pollers
    /\ last' = [op |-> op, arg |-> arg, id |-> id, prior |-> prior,
             readExc |-> ReadOutcome(provider, id, err, out.reads),
             out |-> out]

----------------------------------------------------------------------------
\* Metadata

\* Python values: kind is the type, val the value (a str is a sequence of
\* characters, a list a sequence of ints, a dict a function on its keys)
PyStr(chars) == [kind |-> "str", val |-> chars]
PyInt(n) == [kind |-> "int", val |-> n]
PyList(seq) == [kind |-> "list", val |-> seq]
PyDict(map) == [kind |-> "dict", val |-> map]

EmptyDict == [k \in {} |-> <<>>]

DigitChar(d) ==
    CASE d = 0 -> "0" [] d = 1 -> "1" [] d = 2 -> "2" [] d = 3 -> "3"
      [] d = 4 -> "4" [] d = 5 -> "5" [] d = 6 -> "6" [] d = 7 -> "7"
      [] d = 8 -> "8" [] d = 9 -> "9"

RECURSIVE IntText(_)
IntText(n) ==
    IF n < 10 THEN <<DigitChar(n)>>
    ELSE IntText(n \div 10) \o <<DigitChar(n % 10)>>

RECURSIVE JoinInts(_)
JoinInts(seq) ==
    IF seq = <<>> THEN <<>>
    ELSE IF Len(seq) = 1 THEN IntText(seq[1])
    ELSE IntText(seq[1]) \o <<",", " ">> \o JoinInts(Tail(seq))

\* jsonutils.dumps(value): the JSON text of the value (the dicts that are
\* dumped have one key at most)
RECURSIVE jsonutils_dumps(_)
jsonutils_dumps(value) ==
    CASE value.kind = "int" -> IntText(value.val)
      [] value.kind = "list" -> <<"[">> \o JoinInts(value.val) \o <<"]">>
      [] value.kind = "str" -> <<"\"">> \o value.val \o <<"\"">>
      [] value.kind = "dict" ->
             IF DOMAIN value.val = {} THEN <<"{", "}">>
             ELSE LET key == CHOOSE k \in DOMAIN value.val : TRUE IN
                  <<"{", "\"", key, "\"", ":", " ">>
                      \o jsonutils_dumps(value.val[key]) \o <<"}">>

\* a remote call made through the client: its name, the keys and the
\* mapping it was given
RemoteCall(name, keys, data) == [name |-> name, keys |-> keys, data |-> data]

\* what another operation does: return a value or raise, after the remote
\* calls of calls, in their order
OpReturn(val, calls) ==
    [kind |-> "return", val |-> val, exc |-> NoExc, calls |-> calls]
OpRaise(exc, calls) ==
    [kind |-> "raise", val |-> None, exc |-> exc, calls |-> calls]

StackValidationFailed ==
    Exc("StackValidationFailed", NoAttr, NoAttr,
        [status |-> <<>>,
         reason |-> <<"nova server metadata needs to be a Map.">>])

\* isinstance(metadata, collections.Mapping)
IsMapping(value) == value.kind = "dict"

meta_serialize_quote_all(metadata) ==
    IF ~IsMapping(metadata) THEN OpRaise(StackValidationFailed, <<>>)
    ELSE OpReturn([key \in DOMAIN metadata.val |->
                      jsonutils_dumps(metadata.val[key])], <<>>)

meta_serialize(metadata) ==
    IF ~IsMapping(metadata) THEN OpRaise(StackValidationFailed, <<>>)
    ELSE OpReturn([key \in DOMAIN metadata.val |->
                      IF metadata.val[key].kind = "str"
                      THEN metadata.val[key].val
                      ELSE jsonutils_dumps(metadata.val[key])], <<>>)

meta_update_no_delete(server_metadata, metadata, del_err, set_err) ==
    LET ser == meta_serialize(metadata) IN
    IF ser.kind = "raise" THEN ser
    ELSE LET set == <<RemoteCall("set_meta", {}, ser.val)>> IN
         IF set_err # NoExc THEN OpRaise(set_err, set)
         ELSE OpReturn(None, set)

meta_update_set_first(server_metadata, metadata, del_err, set_err) ==
    LET ser == meta_serialize(metadata) IN
    IF ser.kind = "raise" THEN ser
    ELSE LET to_del == { key \in DOMAIN server_metadata :
                           key \notin DOMAIN ser.val }
             set == <<RemoteCall("set_meta", {}, ser.val)>>
             del == IF Cardinality(to_del) > 0
                    THEN <<RemoteCall("delete_meta", to_del, EmptyDict)>>
                    ELSE <<>> IN
         IF set_err # NoExc THEN OpRaise(set_err, set)
         ELSE IF del # <<>> /\ del_err # NoExc
         THEN OpRaise(del_err, set \o del)
         ELSE OpReturn(None, set \o del)

\* meta_update(server, metadata): server_metadata is server.metadata, del_err
\* and set_err the failures delete_meta and set_meta end in (NoExc: none)
meta_update(server_metadata, metadata, del_err, set_err) ==
    LET ser == meta_serialize(metadata) IN
    IF ser.kind = "raise" THEN ser
    ELSE LET to_del == { key \in DOMAIN server_metadata :
                           key \notin DOMAIN ser.val }
             del == IF Cardinality(to_del) > 0
                    THEN <<RemoteCall("delete_meta", to_del, EmptyDict)>>
                    ELSE <<>>
             set == <<RemoteCall("set_meta", {}, ser.val)>> IN
         IF del # <<>> /\ del_err # NoExc THEN OpRaise(del_err, del)
         ELSE IF set_err # NoExc THEN OpRaise(set_err, del \o set)
         ELSE OpReturn(None, del \o set)

\* what the provider keeps after a remote call on the metadata: delete_meta
\* removes the keys, set_meta adds or replaces the pairs
ProviderApply(md, call) ==
    CASE call.name = "delete_meta" ->
             [key \in DOMAIN md \ call.keys |-> md[key]]
      [] call.name = "set_meta" ->
             [key \in DOMAIN md \cup DOMAIN call.data |->
                 IF key \in DOMAIN call.data THEN call.data[key] ELSE md[key]]
      [] OTHER -> md

\* the metadata after the calls of an operation; when the operation raised,
\* its last call is the one that failed and changed nothing
RECURSIVE ProviderApplyAll(_, _)
ProviderApplyAll(md, calls) ==
    IF calls = <<>> THEN md
    ELSE ProviderApplyAll(ProviderApply(md, Head(calls)), Tail(calls))

Done(out) == IF out.kind = "raise" /\ out.calls # <<>>
             THEN SubSeq(out.calls, 1, Len(out.calls) - 1)
             ELSE out.calls

MetaKeys == {"a", "b", "c"}

\* the values of a desired mapping, and the strings a server's metadata holds
DesiredValues == { PyStr(<<"2">>), PyInt(2), PyList(<<1, 2>>) }
StoredValues == { <<"1">> }

Mappings(keys, values) == UNION { [ks -> values] : ks \in SUBSET keys }

\* what callers pass as metadata: mappings, and values that are no mapping
MetadataArgs ==
    { PyDict(m) : m \in Mappings(MetaKeys, DesiredValues) }
        \cup { PyList(<<1, 2>>), PyStr(<<"2">>) }

\* the metadata attribute of the server objects callers pass
ServerMetadatas == Mappings(MetaKeys, StoredValues)

MetaErrors == { ConflictExc }

NoOp == [op |-> None, arg |-> None, out |-> OpReturn(None, <<>>)]

\* the operations are called one at a time
Idle == olast.op = None

OpCalled(op, arg, out) ==
    /\ Idle
    /\ olast' = [op |-> op, arg |-> arg, out |-> out]
    /\ UNCHANGED pollVars
    /\ UNCHANGED pollers

MetaSerialize(md) ==
    /\ OpCalled("meta_serialize", [metadata |-> md], meta_serialize(md))
    /\ UNCHANGED <<nova_metadata, console>>

\* fresh: the server object holds the metadata the provider has now
MetaUpdate(server_metadata, md, del_err, set_err) ==
    LET out == meta_update(server_metadata, md, del_err, set_err) IN
    /\ OpCalled("meta_update",
                [server_metadata |-> server_metadata, metadata |-> md,
                 del_err |-> del_err, set_err |-> set_err,
                 fresh |-> server_metadata = nova_metadata], out)
    /\ nova_metadata' = ProviderApplyAll(nova_metadata, Done(out))
    /\ UNCHANGED console

\* the caller takes the outcome of the operation and goes on
OpCallerContinues ==
    /\ olast.op # None
    /\ olast' = NoOp
    /\ UNCHANGED <<nova_metadata, console>>
    /\ UNCHANGED pollVars
    /\ UNCHANGED pollers

----------------------------------------------------------------------------
\* Boot payload

PyNone == [kind |-> "none", val |-> None]

\* the truth value of a Python value
Truthy(value) ==
    CASE value.kind = "none" -> FALSE
      [] value.kind = "int" -> value.val # 0
      [] value.kind = "dict" -> DOMAIN value.val # {}
      [] OTHER -> value.val # <<>>

\* a string that holds a multipart document, by the parts of the document
MultipartText(parts) == [kind |-> "multipart-str", val |-> parts]

\* a file name, by its root and its extension
File(root, ext) == [root |-> root, ext |-> ext]

\* os.path.splitext(filename)
splitext(filename) == <<filename.root, filename.ext>>

\* the parts of a multipart document: payload, filename and content subtype
Part(payload, filename, subtype) ==
    [payload |-> payload, filename |-> filename, subtype |-> subtype]

\* email.message_from_string(userdata): a message (headers is the number
\* of its headers), or the exception a value that is no string ends in
email_message_from_string(userdata) ==
    CASE userdata.kind = "multipart-str" ->
             [raised |-> FALSE, headers |-> 1, multipart |-> TRUE,
              payload |-> userdata.val]
      [] userdata.kind = "str" ->
             [raised |-> FALSE, headers |-> 0, multipart |-> FALSE,
              payload |-> userdata.val]
      [] OTHER ->
             [raised |-> TRUE, headers |-> 0, multipart |-> FALSE,
              payload |-> <<>>]

\* an entry of the attachments list (subtype None: a tuple of two)
Attachment(content, filename, subtype) ==
    [content |-> content, filename |-> filename, subtype |-> subtype]

\* the MIMEText part of an attachment
make_subpart(content, filename, subtype) ==
    [content |-> content,
     subtype |-> IF subtype = None THEN splitext(filename)[1] ELSE subtype,
     disposition |-> <<"attachment", filename>>]

\* pkgutil.get_data('chef_validator', 'cloudinit/<fn>'): the text of the
\* file, with the value that stands at its $add_custom_user
read_cloudinit_file(fn) ==
    [file |-> fn, add_custom_user |-> <<"$add_custom_user">>]

\* string.Template(text).safe_substitute(add_custom_user=value)
safe_substitute(text, value) == [text EXCEPT !.add_custom_user = value]

\* a URL, and urlparse.urlparse(url).hostname
Url(scheme, hostname, port) ==
    [scheme |-> scheme, hostname |-> hostname, port |-> port]
urlparse_hostname(url) == url.hostname

\* cfg.CONF
CONF ==
    [chef_validator_watch_server_url |->
         Url("http", "watch.example.com", 8003),
     chef_validator_metadata_server_url |->
         Url("http", "metadata.example.com", 8000),
     instance_connection_is_secure |-> "0",
     instance_connection_https_validate_certificates |-> "1"]

\* the first three attachments
cloudinit_attachments(instance_user) ==
    LET named == instance_user \notin {None, ""}
        config_custom_user ==
            IF named THEN <<"user: ", instance_user>> ELSE <<>>
        boothook_custom_user ==
            IF named
            THEN <<"useradd -m ", instance_user, "\n", "echo -e '",
                   instance_user,
                   "\tALL=(ALL)\tNOPASSWD: ALL' >> /etc/sudoers\n">>
            ELSE <<>>
        cloudinit_config ==
            safe_substitute(read_cloudinit_file("config"),
                            config_custom_user)
        cloudinit_boothook ==
            safe_substitute(read_cloudinit_file("boothook.sh"),
                            boothook_custom_user) IN
    << Attachment(cloudinit_config, File("cloud-config", ""), None),
       Attachment(cloudinit_boothook, File("boothook", ".sh"),
                  "cloud-boothook"),
       Attachment(read_cloudinit_file("part_handler.py"),
                  File("part-handler", ".py"), None) >>

\* the attachments of the user data
userdata_attachments(userdata, is_cfntools, is_software_config) ==
    IF is_cfntools
    THEN << Attachment(userdata, File("cfn-userdata", ""), "x-cfninitdata") >>
    ELSE IF is_software_config
    THEN LET userdata_parts == email_message_from_string(userdata) IN
         \* raised: userdata_parts is None
         IF ~userdata_parts.raised /\ userdata_parts.headers > 0
                /\ userdata_parts.multipart
         THEN [i \in 1..Len(userdata_parts.payload) |->
                  Attachment(userdata_parts.payload[i].payload,
                             userdata_parts.payload[i].filename,
                             userdata_parts.payload[i].subtype)]
         ELSE << Attachment(userdata, File("userdata", ""),
                            "x-shellscript") >>
    ELSE <<>>

\* the boto config: the lines that are joined by "\n"
boto_cfg ==
    LET cfn_url == CONF.chef_validator_metadata_server_url
        cw_url == CONF.chef_validator_watch_server_url
        is_secure == CONF.instance_connection_is_secure
        vcerts == CONF.instance_connection_https_validate_certificates IN
    << <<"[Boto]">>,
       <<"debug = 0">>,
       <<"is_secure = ", is_secure>>,
       <<"https_validate_certificates = ", vcerts>>,
       <<"cfn_region_name = chef_validator">>,
       <<"cfn_region_endpoint = ", urlparse_hostname(cfn_url)>>,
       <<"cloudwatch_region_name = chef_validator">>,
       <<"cloudwatch_region_endpoint = ", urlparse_hostname(cw_url)>> >>

endpoint_attachments_watch_first(metadata, is_cfntools) ==
    (IF is_cfntools
     THEN << Attachment(read_cloudinit_file("loguserdata.py"),
                        File("loguserdata", ".py"), "x-shellscript") >>
     ELSE <<>>)
    \o << Attachment(CONF.chef_validator_watch_server_url,
                     File("cfn-watch-server", ""), "x-cfninitdata") >>
    \o (IF Truthy(metadata)
        THEN << Attachment(jsonutils_dumps(metadata),
                           File("cfn-init-data", ""), "x-cfninitdata") >>
        ELSE <<>>)
    \o (IF is_cfntools
        THEN << Attachment(CONF.chef_validator_metadata_server_url,
                           File("cfn-metadata-server", ""),
                           "x-cfninitdata"),
                Attachment(boto_cfg, File("cfn-boto-cfg", ""),
                           "x-cfninitdata") >>
        ELSE <<>>)

\* the attachments after the user data
endpoint_attachments(metadata, is_cfntools) ==
    (IF is_cfntools
     THEN << Attachment(read_cloudinit_file("loguserdata.py"),
                        File("loguserdata", ".py"), "x-shellscript") >>
     ELSE <<>>)
    \o (IF Truthy(metadata)
        THEN << Attachment(jsonutils_dumps(metadata),
                           File("cfn-init-data", ""), "x-cfninitdata") >>
        ELSE <<>>)
    \o << Attachment(CONF.chef_validator_watch_server_url,
                     File("cfn-watch-server", ""), "x-cfninitdata") >>
    \o (IF is_cfntools
        THEN << Attachment(CONF.chef_validator_metadata_server_url,
                           File("cfn-metadata-server", ""),
                           "x-cfninitdata"),
                Attachment(boto_cfg, File("cfn-boto-cfg", ""),
                           "x-cfninitdata") >>
        ELSE <<>>)

\* multipart.MIMEMultipart(_subparts=subparts).as_string()
MIMEMultipart(subparts) == MultipartText(subparts)

build_userdata_no_raw(metadata, userdata, instance_user, user_data_format) ==
    LET is_cfntools == user_data_format = "chef_validator_CFNTOOLS"
        is_software_config == user_data_format = "SOFTWARE_CONFIG"
        attachments ==
            cloudinit_attachments(instance_user)
            \o userdata_attachments(userdata, is_cfntools,
                                    is_software_config)
            \o endpoint_attachments(metadata, is_cfntools)
        subparts == [i \in 1..Len(attachments) |->
                        make_subpart(attachments[i].content,
                                     attachments[i].filename,
                                     attachments[i].subtype)] IN
    [result |-> MIMEMultipart(subparts), attachments |-> attachments]

\* build_userdata: what it returns, and the attachments list it built
build_userdata(metadata, userdata, instance_user, user_data_format) ==
    IF user_data_format = "RAW"
    THEN [result |-> userdata, attachments |-> <<>>]
    ELSE LET is_cfntools == user_data_format = "chef_validator_CFNTOOLS"
             is_software_config == user_data_format = "SOFTWARE_CONFIG"
             attachments ==
                 cloudinit_attachments(instance_user)
                 \o userdata_attachments(userdata, is_cfntools,
                                         is_software_config)
                 \o endpoint_attachments(metadata, is_cfntools)
             subparts == [i \in 1..Len(attachments) |->
                             make_subpart(attachments[i].content,
                                          attachments[i].filename,
                                          attachments[i].subtype)] IN
         [result |-> MIMEMultipart(subparts), attachments |-> attachments]

\* what callers pass to build_userdata
UserdataMetadatas ==
    { PyNone, PyDict(EmptyDict), PyDict([k \in {"a"} |-> PyInt(2)]) }
UserdataParts ==
    << Part(<<"echo 1">>, File("first", ".sh"), "x-shellscript"),
       Part(<<"#cloud-config">>, File("second", ""), "cloud-config") >>
Userdatas ==
    { PyNone, PyStr(<<"#!/bin/sh">>),
      MultipartText(SubSeq(UserdataParts, 1, 1)),
      MultipartText(UserdataParts) }
InstanceUsers == { None, "", "deploy" }
UserDataFormats ==
    { "RAW", "chef_validator_CFNTOOLS", "SOFTWARE_CONFIG", "HEAT_CFNTOOLS" }

BuildUserdata(md, userdata, instance_user, user_data_format) ==
    /\ OpCalled("build_userdata",
                [metadata |-> md, userdata |-> userdata,
                 instance_user |-> instance_user,
                 user_data_format |-> user_data_format],
                OpReturn(build_userdata(md, userdata, instance_user,
                                        user_data_format), <<>>))
    /\ UNCHANGED <<nova_metadata, console>>

----------------------------------------------------------------------------
\* Console urls

ConsoleTypes == { "novnc", "xvpvnc", "spice-html5", "rdp-html5", "serial" }

\* ConsoleUrls.__init__: the method of the server that resolves each type
console_methods ==
    [key \in ConsoleTypes |->
        CASE key \in { "novnc", "xvpvnc" } -> "get_vnc_console"
          [] key = "spice-html5" -> "get_spice_console"
          [] key = "rdp-html5" -> "get_rdp_console"
          [] key = "serial" -> "get_serial_console"]

KeyError(key) ==
    Exc("KeyError", NoAttr, NoAttr, [status |-> <<>>, reason |-> <<key>>])

\* a BadRequest of novaclient, and e.message; a message is the sequence of
\* its words and blanks
BadRequest(msg) ==
    Exc("BadRequest", 400, 400, [status |-> <<>>, reason |-> msg])
message(e) == e.detail.reason

\* needle in hay
IsSubstring(needle, hay) ==
    \E i \in 0..(Len(hay) - Len(needle)) :
        SubSeq(hay, i + 1, i + Len(needle)) = needle

unavailable == <<"Unavailable", " ", "console", " ", "type">>

\* what a console method of the server answers: a body, or an exception
ConsoleReply(exc, url) ==
    [exc |-> exc, body |-> [console |-> [url |-> url]]]

get_console_urls_eager(server) ==
    OpReturn([server |-> server],
             << RemoteCall("get_vnc_console", {"novnc"}, EmptyDict),
                RemoteCall("get_vnc_console", {"xvpvnc"}, EmptyDict),
                RemoteCall("get_spice_console", {"spice-html5"}, EmptyDict),
                RemoteCall("get_rdp_console", {"rdp-html5"}, EmptyDict),
                RemoteCall("get_serial_console", {"serial"}, EmptyDict) >>)

\* get_console_urls(server): builds the ConsoleUrls object
get_console_urls(server) == OpReturn([server |-> server], <<>>)

__getitem___any_bad_request(key, reply) ==
    IF key \notin DOMAIN console_methods THEN OpRaise(KeyError(key), <<>>)
    ELSE LET calls == << RemoteCall(console_methods[key], {key},
                                    EmptyDict) >> IN
         IF reply.exc = NoExc
         THEN OpReturn(reply.body.console.url, calls)
         ELSE IF isinstance(reply.exc, "BadRequest")
         THEN OpReturn(message(reply.exc), calls)
         ELSE OpRaise(reply.exc, calls)

\* ConsoleUrls.__getitem__(key); reply is what the console method answers
__getitem__(key, reply) ==
    IF key \notin DOMAIN console_methods THEN OpRaise(KeyError(key), <<>>)
    ELSE LET calls == << RemoteCall(console_methods[key], {key},
                                    EmptyDict) >> IN
         IF reply.exc = NoExc
         THEN OpReturn(reply.body.console.url, calls)
         ELSE IF isinstance(reply.exc, "BadRequest")
         THEN IF IsSubstring(unavailable, message(reply.exc))
              THEN OpReturn(message(reply.exc), calls)
              ELSE OpRaise(reply.exc, calls)
         ELSE OpRaise(reply.exc, calls)

\* ConsoleUrls.__len__ and ConsoleUrls.__iter__
__len__ == OpReturn(Cardinality(DOMAIN console_methods), <<>>)
__iter__ == OpReturn(DOMAIN console_methods, <<>>)

\* the keys callers look up, and the answers of the console methods
ConsoleKeys == ConsoleTypes \cup { "vnc" }
ConsoleMessages ==
    { unavailable \o <<" ", "spice-html5", ".">>,
      <<"Invalid", " ", "console", " ", "type", " ", "spice-html5", ".">>,
      <<"unavailable", " ", "console", " ", "type">> }
ConsoleReplies ==
    { ConsoleReply(NoExc, <<"http://console.example.com/?token=t">>) }
        \cup { ConsoleReply(BadRequest(msg), <<>>) : msg \in ConsoleMessages }
        \cup { ConsoleReply(NotFoundExc, <<>>) }

\* no ConsoleUrls object was built yet
NoConsole == [server |-> None, last_key |-> None]

GetConsoleUrls(server) ==
    /\ OpCalled("get_console_urls", [server |-> server],
                get_console_urls(server))
    /\ console' = [server |-> server, last_key |-> None]
    /\ UNCHANGED nova_metadata

\* a lookup; last_key keeps the key of the lookup before it
GetItem(key, reply) ==
    /\ console # NoConsole
    /\ OpCalled("__getitem__",
                [key |-> key, reply |-> reply, prior |-> console.last_key],
                __getitem__(key, reply))
    /\ console' = [console EXCEPT !.last_key = key]
    /\ UNCHANGED nova_metadata

GetLen ==
    /\ console # NoConsole
    /\ OpCalled("__len__", [server |-> console.server], __len__)
    /\ UNCHANGED <<nova_metadata, console>>

GetIter ==
    /\ console # NoConsole
    /\ OpCalled("__iter__", [server |-> console.server], __iter__)
    /\ UNCHANGED <<nova_metadata, console>>

----------------------------------------------------------------------------
\* Networks

NoUniqueMatchExc == Exc("NoUniqueMatch", NoAttr, NoAttr, NoDetail)
NovaNetworkNotFound(network) ==
    Exc("NovaNetworkNotFound", NoAttr, NoAttr,
        [status |-> <<>>, reason |-> <<network>>])
PhysicalResourceNameAmbiguity(name) ==
    Exc("PhysicalResourceNameAmbiguity", NoAttr, NoAttr,
        [status |-> <<>>, reason |-> <<name>>])

\* what networks.get and networks.find answer: a network, or an exception
NetReply(exc, id) == [exc |-> exc, id |-> id]

get_net_id_by_label(label, find_reply) ==
    LET calls == << RemoteCall("networks.find", {label}, EmptyDict) >> IN
    IF find_reply.exc = NoExc THEN OpReturn(find_reply.id, calls)
    ELSE IF isinstance(find_reply.exc, "NotFound")
    THEN OpRaise(NovaNetworkNotFound(label), calls)
    ELSE IF isinstance(find_reply.exc, "NoUniqueMatch")
    THEN OpRaise(PhysicalResourceNameAmbiguity(label), calls)
    ELSE OpRaise(find_reply.exc, calls)

\* the identifiers callers pass; uuidutils.is_uuid_like on them
NetUuid == "4f6a31c2-0b1c-4c57-9b32-6f1f8f3f7a10"
NetIdentifiers == { NetUuid, "private" }
is_uuid_like(val) == val = NetUuid

get_nova_network_id_always_get(net_identifier, get_reply, find_reply) ==
    LET get == << RemoteCall("networks.get", {net_identifier},
                             EmptyDict) >> IN
    IF get_reply.exc = NoExc THEN OpReturn(get_reply.id, get)
    ELSE IF isinstance(get_reply.exc, "NotFound")
    THEN LET by_label == get_net_id_by_label(net_identifier, find_reply)
         IN [by_label EXCEPT !.calls = get \o @]
    ELSE OpRaise(get_reply.exc, get)

get_nova_network_id(net_identifier, get_reply, find_reply) ==
    IF is_uuid_like(net_identifier)
    THEN LET get == << RemoteCall("networks.get", {net_identifier},
                                  EmptyDict) >> IN
         IF get_reply.exc = NoExc THEN OpReturn(get_reply.id, get)
         ELSE IF isinstance(get_reply.exc, "NotFound")
         THEN LET by_label ==
                      get_net_id_by_label(net_identifier, find_reply)
              IN [by_label EXCEPT !.calls = get \o @]
         ELSE OpRaise(get_reply.exc, get)
    ELSE get_net_id_by_label(net_identifier, find_reply)

NetReplies ==
    { NetReply(NoExc, "net-1"), NetReply(NotFoundExc, None),
      NetReply(NoUniqueMatchExc, None), NetReply(ConflictExc, None) }

GetNetIdByLabel(label, find_reply) ==
    /\ OpCalled("get_net_id_by_label",
                [label |-> label, find_reply |-> find_reply],
                get_net_id_by_label(label, find_reply))
    /\ UNCHANGED <<nova_metadata, console>>

GetNovaNetworkId(net_identifier, get_reply, find_reply) ==
    /\ OpCalled("get_nova_network_id",
                [net_identifier |-> net_identifier, get_reply |-> get_reply,
                 find_reply |-> find_reply],
                get_nova_network_id(net_identifier, get_reply, find_reply))
    /\ UNCHANGED <<nova_metadata, console>>

----------------------------------------------------------------------------
\* Authentication filter

\* env.get(key), and env.update(headers)
EnvGet(env, key) == IF key \in DOMAIN env THEN env[key] ELSE None
EnvUpdate(env, headers) ==
    [key \in DOMAIN env \cup DOMAIN headers |->
        IF key \in DOMAIN headers THEN headers[key] ELSE env[key]]

\* sep.join(seq): the strings of seq with sep between them
RECURSIVE Join(_, _)
Join(sep, seq) ==
    IF seq = <<>> THEN <<>>
    ELSE IF Len(seq) = 1 THEN <<seq[1]>>
    ELSE <<seq[1], sep>> \o Join(sep, Tail(seq))

RoleNames(roles) == [i \in 1..Len(roles) |-> roles[i].name]

_build_user_headers(token_info) ==
    LET v3 == EnvGet(token_info, "version") = "v3"
        keystone_token_info ==
            IF v3 THEN [token |-> token_info] ELSE token_info
        tenant_id == IF v3 THEN token_info.project.id
                     ELSE token_info.token.tenant.id
        tenant_name == IF v3 THEN token_info.project.name
                       ELSE token_info.token.tenant.name
        user_id == token_info.user.id
        user_name == token_info.user.name
        roles == IF v3 THEN Join(",", RoleNames(token_info.roles))
                 ELSE Join(",", RoleNames(token_info.user.roles))
        service_catalog == IF v3 THEN None
                           ELSE token_info.serviceCatalog
        auth_token == IF v3 THEN token_info.auth_token
                      ELSE token_info.token.id IN
    ("keystone.token_info" :> keystone_token_info)
        @@ ("HTTP_X_IDENTITY_STATUS" :> "Confirmed")
        @@ ("HTTP_X_PROJECT_ID" :> tenant_id)
        @@ ("HTTP_X_PROJECT_NAME" :> tenant_name)
        @@ ("HTTP_X_USER_ID" :> user_id)
        @@ ("HTTP_X_USER_NAME" :> user_name)
        @@ ("HTTP_X_ROLES" :> roles)
        @@ ("HTTP_X_SERVICE_CATALOG" :> service_catalog)
        @@ ("HTTP_X_AUTH_TOKEN" :> auth_token)

\* what the filter answers: the response of the wrapped application on the
\* env it was given (app_called), or a response of its own
Forwarded(env) ==
    [app_called |-> TRUE, status |-> NoAttr, headers |-> <<>>, env |-> env]

_reject_request(env, auth_url) ==
    [app_called |-> FALSE, status |-> 401,
     headers |-> << <<"WWW-Authenticate",
                      <<"Keystone uri='", auth_url, "'">> >> >>,
     env |-> env]

AuthFailures ==
    { "Unauthorized", "Forbidden", "NotFound", "AuthorizationFailure" }

__call___no_tenant_check(env, reply) ==
    LET username == EnvGet(env, "HTTP_X_AUTH_USER")
        password == EnvGet(env, "HTTP_X_AUTH_KEY")
        tenant == username
        auth_url == EnvGet(env, "HTTP_X_AUTH_URL")
        calls == << RemoteCall("get_access", {},
                               [username |-> username,
                                password |-> password,
                                tenant |-> tenant,
                                auth_url |-> auth_url]) >> IN
    IF reply.exc # NoExc
    THEN IF \E cls \in AuthFailures : isinstance(reply.exc, cls)
         THEN OpReturn(_reject_request(env, auth_url), calls)
         ELSE OpRaise(reply.exc, calls)
    ELSE OpReturn(Forwarded(EnvUpdate(env,
                      _build_user_headers(reply.auth_ref))), calls)

\* KeystonePasswordAuthProtocol.__call__(env, start_response); reply is
\* what building the context and get_access end in
__call__(env, reply) ==
    LET username == EnvGet(env, "HTTP_X_AUTH_USER")
        password == EnvGet(env, "HTTP_X_AUTH_KEY")
        tenant == username
        auth_url == EnvGet(env, "HTTP_X_AUTH_URL")
        calls == << RemoteCall("get_access", {},
                               [username |-> username,
                                password |-> password,
                                tenant |-> tenant,
                                auth_url |-> auth_url]) >> IN
    IF tenant \in { None, "" }
    THEN OpReturn(_reject_request(env, auth_url), <<>>)
    ELSE IF reply.exc # NoExc
    THEN IF \E cls \in AuthFailures : isinstance(reply.exc, cls)
         THEN OpReturn(_reject_request(env, auth_url), calls)
         ELSE OpRaise(reply.exc, calls)
    ELSE OpReturn(Forwarded(EnvUpdate(env,
                      _build_user_headers(reply.auth_ref))), calls)

\* the tokens of the two versions of the identity service
Roles == << [name |-> "admin"], [name |-> "member"] >>
TokenV2 ==
    [token |-> [id |-> "tok-1", tenant |-> [id |-> "p1", name |-> "demo"]],
     user |-> [id |-> "u1", name |-> "alice", roles |-> Roles],
     serviceCatalog |-> <<"compute">>]
TokenV3 ==
    [version |-> "v3", auth_token |-> "tok-1",
     project |-> [id |-> "p1", name |-> "demo"],
     user |-> [id |-> "u1", name |-> "alice"],
     roles |-> Roles]

AuthReply(exc, auth_ref) == [exc |-> exc, auth_ref |-> auth_ref]
AuthReplies ==
    { AuthReply(NoExc, TokenV2), AuthReply(NoExc, TokenV3) }
        \cup { AuthReply(Exc(cls, NoAttr, NoAttr, NoDetail), None) :
                 cls \in AuthFailures \cup { "ConnectionError" } }

AuthUrl == "http://keystone.example.com:5000/v2.0"
Envs ==
    { user @@ url @@ ("HTTP_X_AUTH_KEY" :> "secret") :
        user \in { <<>>, "HTTP_X_AUTH_USER" :> "",
                   "HTTP_X_AUTH_USER" :> "alice" },
        url \in { <<>>, "HTTP_X_AUTH_URL" :> AuthUrl } }

AuthFilter(env, reply) ==
    /\ OpCalled("__call__", [env |-> env, reply |-> reply],
                __call__(env, reply))
    /\ UNCHANGED <<nova_metadata, console>>

----------------------------------------------------------------------------
\* Error classification

is_unprocessable_entity_any_class(ex) ==
    LET attr == getattr(ex, "http_status", NoAttr)
        http_status == IF attr \notin { NoAttr, 0 } THEN attr
                       ELSE getattr(ex, "code", NoAttr) IN
    IF http_status = 422 THEN True ELSE False

\* is_unprocessable_entity(ex): "a or b" is b when a is None or 0
is_unprocessable_entity(ex) ==
    LET attr == getattr(ex, "http_status", NoAttr)
        http_status == IF attr \notin { NoAttr, 0 } THEN attr
                       ELSE getattr(ex, "code", NoAttr) IN
    IF isinstance(ex, "ClientException") /\ http_status = 422
    THEN True ELSE False

\* the errors callers classify
ClassifiedErrors ==
    { Exc(cls, http_status, code, NoDetail) :
        cls \in { "ClientException", "BadRequest", "ConnectionError" },
        http_status \in { NoAttr, 0, 400, 422 },
        code \in { NoAttr, 400, 422 } }

IsUnprocessableEntity(ex) ==
    /\ OpCalled("is_unprocessable_entity", [ex |-> ex],
                OpReturn(is_unprocessable_entity(ex), <<>>))
    /\ UNCHANGED <<nova_metadata, console>>

----------------------------------------------------------------------------
\* The initial state

\* no poller
NoPollers == [p \in {} |-> None]

Init ==
    /\ provider = [id \in ServerIds |-> [Gone EXCEPT !.exists = TRUE,
                                                     !.status = BUILD]]
    /\ held = NoServer
    /\ last = NoCall
    /\ nova_metadata = EmptyDict
    /\ console = NoConsole
    /\ olast = NoOp
    /\ pollers = NoPollers

\* between two calls the provider moves a server to another state, or
\* deletes it
ProviderStep(id, st) ==
    /\ last = NoCall
    /\ provider[id] # st
    /\ provider' = [provider EXCEPT ![id] = st]
    /\ UNCHANGED <<held, last>>
    /\ UNCHANGED opsVars
    /\ UNCHANGED pollers

\* the caller takes the outcome of the call and goes on
CallerContinues ==
    /\ last # NoCall
    /\ last' = NoCall
    /\ UNCHANGED <<provider, held>>
    /\ UNCHANGED opsVars
    /\ UNCHANGED pollers

GetServer(id, err) ==
    LET out == get_server(provider, id, err) IN
    /\ Called("get_server", "id", NoServer, id, err, out)
    /\ held' = IF out.kind = "return" THEN out.server ELSE held
    /\ UNCHANGED provider

FetchServer(id, err) ==
    LET out == fetch_server(provider, id, err) IN
    /\ Called("fetch_server", "id", NoServer, id, err, out)
    /\ held' = IF out.kind = "return" /\ out.ret # None THEN out.server
               ELSE held
    /\ UNCHANGED provider

RefreshServer(err) ==
    /\ held # NoServer
    /\ LET out == refresh_server(provider, held, err) IN
       /\ Called("refresh_server", "server", held, held.id, err, out)
       /\ held' = out.server
    /\ UNCHANGED provider

CheckActiveId(id, err) ==
    LET out == _check_active(provider, TRUE, id, NoServer, err) IN
    /\ Called("_check_active", "id", NoServer, id, err, out)
    /\ UNCHANGED <<provider, held>>

CheckActiveServer(err) ==
    /\ held # NoServer
    /\ LET out == _check_active(provider, FALSE, held.id, held, err) IN
       /\ Called("_check_active", "server", held, held.id, err, out)
       /\ held' = out.server
    /\ UNCHANGED provider

CheckDeleteServerComplete(id, err) ==
    LET out == check_delete_server_complete(provider, id, err) IN
    /\ Called("check_delete_server_complete", "id", NoServer, id, err, out)
    /\ UNCHANGED <<provider, held>>

Next ==
    \/ CallerContinues
    \/ \E id \in ServerIds, st \in ProviderStates : ProviderStep(id, st)
    \/ \E id \in ServerIds, err \in ReadErrors \cup {NoExc} : GetServer(id, err)
    \/ \E id \in ServerIds, err \in ReadErrors \cup {NoExc} : FetchServer(id, err)
    \/ \E err \in ReadErrors \cup {NoExc} : RefreshServer(err)
    \/ \E id \in ServerIds, err \in ReadErrors \cup {NoExc} :
            CheckActiveId(id, err)
    \/ \E err \in ReadErrors \cup {NoExc} : CheckActiveServer(err)
    \/ \E id \in ServerIds, err \in ReadErrors \cup {NoExc} :
            CheckDeleteServerComplete(id, err)

Spec == Init /\ [][Next]_vars

NextOps ==
    \/ OpCallerContinues
    \/ Idle /\ \E md \in MetadataArgs : MetaSerialize(md)
    \/ Idle /\ \E sm \in ServerMetadatas \cup {nova_metadata},
                  md \in MetadataArgs,
                  del_err \in MetaErrors \cup {NoExc},
                  set_err \in MetaErrors \cup {NoExc} :
                    MetaUpdate(sm, md, del_err, set_err)
    \/ Idle /\ \E md \in UserdataMetadatas, userdata \in Userdatas,
                  instance_user \in InstanceUsers,
                  user_data_format \in UserDataFormats :
                    BuildUserdata(md, userdata, instance_user,
                                  user_data_format)
    \/ Idle /\ \E server \in ServerIds : GetConsoleUrls(server)
    \/ Idle /\ \E key \in ConsoleKeys, reply \in ConsoleReplies :
                    GetItem(key, reply)
    \/ GetLen
    \/ GetIter
    \/ Idle /\ \E label \in NetIdentifiers, find_reply \in NetReplies :
                    GetNetIdByLabel(label, find_reply)
    \/ Idle /\ \E net_identifier \in NetIdentifiers,
                  get_reply \in NetReplies, find_reply \in NetReplies :
                    GetNovaNetworkId(net_identifier, get_reply, find_reply)
    \/ Idle /\ \E env \in Envs, reply \in AuthReplies :
                    AuthFilter(env, reply)
    \/ Idle /\ \E ex \in ClassifiedErrors : IsUnprocessableEntity(ex)

SpecOps == Init /\ [][NextOps]_vars

----------------------------------------------------------------------------
\* Concurrent pollers and poll loops

\* the identifiers the pollers poll, and the poller of each
PollerIds == { "1234", "5678" }
PollerOf(id) == IF id = "1234" THEN "p1" ELSE "p2"

\* what the provider reports for a server that is polled
Reports(status, task_state) ==
    [exists |-> TRUE, status |-> status, task_state |-> task_state,
     fault |-> NoFault]
PollerStates ==
    { Gone, Reports(BUILD, None), Reports(ACTIVE, None),
      Reports(ERROR, None), Reports(DELETED, None) }
LoopStates ==
    PollerStates
        \cup { Reports(ACTIVE, "deleting"), Reports(ERROR, "deleting"),
               Reports(DELETED, "deleting"), Reports(SOFT_DELETED, None),
               Reports(PAUSED, None) }

PollOps ==
    { "fetch_server", "get_server", "_check_active",
      "check_delete_server_complete" }
LoopOps == { "_check_active", "check_delete_server_complete" }

\* the failures the reads of the pollers and of the loops end in
PollerErrors == { NoExc, OverLimitExc }
LoopErrors == { NoExc, OverLimitExc, ConflictExc }

poll_first_server(op, prov, id, err) ==
    LET first == CHOOSE i \in DOMAIN prov : TRUE IN
    CASE op = "fetch_server" -> fetch_server(prov, first, err)
      [] op = "get_server" -> get_server(prov, first, err)
      [] op = "_check_active" ->
             _check_active(prov, TRUE, first, NoServer, err)
      [] op = "check_delete_server_complete" ->
             check_delete_server_complete(prov, first, err)

\* a polling call on an identifier, by the name of the method
poll(op, prov, id, err) ==
    CASE op = "fetch_server" -> fetch_server(prov, id, err)
      [] op = "get_server" -> get_server(prov, id, err)
      [] op = "_check_active" -> _check_active(prov, TRUE, id, NoServer, err)
      [] op = "check_delete_server_complete" ->
             check_delete_server_complete(prov, id, err)

\* a poller: pc is where it stands, seen what the provider reported for its
\* server when its call read it, out the outcome of the call, again whether
\* its loop has called before
Poller(pc, id, op) ==
    [pc |-> pc, id |-> id, op |-> op, err |-> NoExc, seen |-> Gone,
     out |-> Return(None, NoServer), again |-> FALSE]

OtherVars == <<held, last, nova_metadata, console, olast>>

\* the provider moves a server to another state at any time
PolledProviderStep(id, st) ==
    /\ provider[id] # st
    /\ provider' = [provider EXCEPT ![id] = st]
    /\ UNCHANGED pollers
    /\ UNCHANGED OtherVars

\* what a call of op by the poller leaves in its record
PollerCalled(rec, op, err) ==
    [rec EXCEPT !.pc = "called", !.op = op, !.err = err,
                !.seen = provider[rec.id],
                !.out = poll(op, provider, rec.id, err)]

PollerCall(p, op, err) ==
    /\ pollers[p].pc = "idle"
    /\ pollers' = [pollers EXCEPT ![p] = PollerCalled(@, op, err)]
    /\ UNCHANGED provider
    /\ UNCHANGED OtherVars

PollerReturn(p) ==
    /\ pollers[p].pc = "called"
    /\ pollers' = [pollers EXCEPT ![p] = Poller("idle", @.id, None)]
    /\ UNCHANGED provider
    /\ UNCHANGED OtherVars

InitOthers ==
    /\ held = NoServer
    /\ last = NoCall
    /\ nova_metadata = EmptyDict
    /\ console = NoConsole
    /\ olast = NoOp

InitPollers ==
    /\ provider = [id \in PollerIds |-> Reports(BUILD, None)]
    /\ pollers = [p \in { PollerOf(id) : id \in PollerIds } |->
                     Poller("idle",
                            CHOOSE id \in PollerIds : PollerOf(id) = p,
                            None)]
    /\ InitOthers

NextPollers ==
    \/ \E id \in PollerIds, st \in PollerStates : PolledProviderStep(id, st)
    \/ \E p \in DOMAIN pollers, op \in PollOps, err \in PollerErrors :
           PollerCall(p, op, err)
    \/ \E p \in DOMAIN pollers : PollerReturn(p)

SpecPollers == InitPollers /\ [][NextPollers]_vars

\* the poll loop of the caller: it calls the check until the check returns
\* True or raises
LoopIds == { "1234" }

LoopCall(p, err) ==
    /\ pollers[p].pc = "looping"
    /\ pollers' = [pollers EXCEPT ![p] = PollerCalled(@, @.op, err)]
    /\ UNCHANGED provider
    /\ UNCHANGED OtherVars

LoopReturn(p) ==
    /\ pollers[p].pc = "called"
    /\ pollers' = [pollers EXCEPT ![p] =
                      IF @.out.kind = "return" /\ @.out.ret = False
                      THEN [@ EXCEPT !.pc = "looping", !.again = TRUE]
                      ELSE [@ EXCEPT !.pc = "ended"]]
    /\ UNCHANGED provider
    /\ UNCHANGED OtherVars

InitLoop ==
    /\ provider = [id \in LoopIds |-> Reports(BUILD, None)]
    /\ \E op \in LoopOps :
           pollers = [p \in { PollerOf(id) : id \in LoopIds } |->
                         Poller("looping",
                                CHOOSE id \in LoopIds : PollerOf(id) = p,
                                op)]
    /\ InitOthers

NextLoop ==
    \/ \E id \in LoopIds, st \in LoopStates : PolledProviderStep(id, st)
    \/ \E p \in DOMAIN pollers, err \in LoopErrors : LoopCall(p, err)
    \/ \E p \in DOMAIN pollers : LoopReturn(p)

\* the loop goes on calling, and takes each outcome
LoopFairness ==
    \A p \in { PollerOf(id) : id \in LoopIds } :
        /\ WF_vars(\E err \in LoopErrors : LoopCall(p, err))
        /\ WF_vars(LoopReturn(p))

SpecLoop == InitLoop /\ [][NextLoop]_vars /\ LoopFairness

TypeOK ==
    /\ \A id \in ServerIds : provider[id] \in ProviderStates
    /\ last.out.kind \in {"return", "raise"}

----------------------------------------------------------------------------
\* Vocabulary of the properties

\* the deferred set of the status state machine
DeferredSet ==
    { BUILD, HARD_REBOOT, PASSWORD, REBOOT, RESCUE, RESIZE, REVERT_RESIZE,
      SHUTOFF, SUSPENDED, VERIFY_RESIZE }

ClientErrorClasses ==
    { "ClientException", "OverLimit", "NotFound", "BadRequest", "Conflict",
      "HTTPNotImplemented" }

\* over-limit, or a client error for a response with HTTP status 500 or 503
TransientError(e) ==
    \/ e.cls = "OverLimit"
    \/ e.cls \in ClientErrorClasses /\ e.code \in {500, 503}

Contains(seq, x) == \E i \in 1..Len(seq) : seq[i] = x

HasParen(str) == Contains(str, "(")

Prefixes(str) == { SubSeq(str, 1, n) : n \in 0..Len(str) }

\* p is what precedes the first "(" of str (all of str when it has none)
IsStatusPrefix(p, str) ==
    /\ Len(p) <= Len(str)
    /\ \A i \in 1..Len(p) : p[i] = str[i] /\ p[i] # "("
    /\ Len(p) = Len(str) \/ str[Len(p) + 1] = "("

ReturnedBool(b) == last.out.kind = "return" /\ last.out.ret = b

CheckedActive == last.op = "_check_active"
CheckedDelete == last.op = "check_delete_server_complete"

\* the fault field a failure is to report, with its default
ReportedField(server, key, default) ==
    LET v == IF key = "message" THEN server.fault.message
             ELSE server.fault.code IN
    IF server.fault.attr /\ v # Missing THEN v ELSE default

----------------------------------------------------------------------------
\* Properties

\* C1: whenever the status _check_active decides on is in the deferred set,
\* the call returns False and does not raise, for an identifier and for a
\* server object alike.
C1_DeferredReturnsFalse ==
    (CheckedActive /\ last.out.classified /\ last.out.status \in DeferredSet)
        => ReturnedBool(False)

C1_Witness ==
    /\ CheckedActive /\ last.arg = "server" /\ last.out.reads = 1
    /\ last.out.classified /\ last.out.status = VERIFY_RESIZE
    /\ ReturnedBool(False)

C3_UnknownStatusDistinct ==
    (/\ CheckedActive /\ last.out.classified
     /\ last.out.status \notin DeferredSet \cup {ACTIVE, ERROR}) =>
        /\ last.out.kind = "raise"
        /\ last.out.exc.cls = "ResourceUnknownStatus"
        /\ last.out.exc.cls #
              ActiveBranches([last.out.server EXCEPT !.status = ERROR],
                             ERROR, "Server").exc.cls

\* C4 as stated: check_delete_server_complete returns True when the fetch
\* raises not-found, and returns True when the fetched server's status is
\* DELETED or SOFT_DELETED.
C4_DeletedReturnsTrue ==
    CheckedDelete =>
        /\ last.readExc.cls = "NotFound" => ReturnedBool(True)
        /\ (/\ last.out.server # NoServer
            /\ last.out.server.status \in {DELETED, SOFT_DELETED})
              => ReturnedBool(True)

\* C4: check_delete_server_complete returns True when the fetch raises
\* not-found, and returns True when the fetched server's status is DELETED
\* or SOFT_DELETED and its task state is not "deleting".
C4_DeletedNotDeletingReturnsTrue ==
    CheckedDelete =>
        /\ last.readExc.cls = "NotFound" => ReturnedBool(True)
        /\ (/\ last.out.server # NoServer
            /\ last.out.server.status \in {DELETED, SOFT_DELETED}
            /\ last.out.server.task_state # "deleting")
              => ReturnedBool(True)

C4_Witness ==
    /\ CheckedDelete /\ last.out.server.status = SOFT_DELETED
    /\ last.out.server.task_state # "deleting"
    /\ ReturnedBool(True)

\* C5: check_delete_server_complete returns False, and does not raise,
\* whenever the fetched server's task state is "deleting", whatever its
\* status.
C5_DeletingReturnsFalse ==
    (/\ CheckedDelete /\ last.out.server # NoServer
     /\ last.out.server.task_state = "deleting") => ReturnedBool(False)

C5_Witness ==
    /\ CheckedDelete /\ last.out.server.task_state = "deleting"
    /\ last.out.server.status = DELETED
    /\ ReturnedBool(False)

\* C6: when the fetched server's status is ERROR and its task state is not
\* "deleting", check_delete_server_complete raises ResourceInError with a
\* reason that holds the fault's message and code; on every other status
\* but DELETED and SOFT_DELETED it returns False.
C6_DeleteErrorInError ==
    (/\ CheckedDelete /\ last.out.server # NoServer
     /\ last.out.server.task_state # "deleting") =>
        /\ last.out.status = ERROR =>
              /\ last.out.kind = "raise"
              /\ last.out.exc.cls = "ResourceInError"
              /\ Contains(last.out.exc.detail.reason,
                          ReportedField(last.out.server, "message", "Unknown"))
              /\ Contains(last.out.exc.detail.reason,
                          ReportedField(last.out.server, "code", None))
        /\ last.out.status \notin {ERROR, DELETED, SOFT_DELETED}
              => ReturnedBool(False)

\* C7: fetch_server returns None, and does not raise, when the read fails
\* with over-limit or with a client error for HTTP status 500 or 503, and
\* raises every other client error as it came.
C7_FetchAbsorbsTransient ==
    (last.op = "fetch_server" /\ last.readExc.cls \in ClientErrorClasses) =>
        IF TransientError(last.readExc)
        THEN last.out.kind = "return" /\ last.out.ret = None
        ELSE last.out.kind = "raise" /\ last.out.exc = last.readExc

C7_Witness ==
    /\ last.op = "fetch_server" /\ last.readExc = ServerFault503
    /\ last.out.kind = "return" /\ last.out.ret = None

\* C8 as stated: when the read of _check_active (with an identifier or a
\* server object) or of check_delete_server_complete ends in a transient
\* error, the call returns a boolean.
C8_TransientReturnsBool ==
    ((CheckedActive \/ CheckedDelete) /\ TransientError(last.readExc)) =>
        ReturnedBool(True) \/ ReturnedBool(False)

\* C8: when the read of a polling call ends in a transient error, the call
\* never ends in that error: _check_active with an identifier and
\* check_delete_server_complete return False, and _check_active with a
\* server object leaves the object as it was and decides on its unrefreshed
\* status, returning False when it is deferred and otherwise raising an
\* error that is not a provider error.
C8_TransientNeverSurfaces ==
    ((CheckedActive \/ CheckedDelete) /\ TransientError(last.readExc)) =>
        /\ last.out.exc # last.readExc
        /\ last.arg = "id" => ReturnedBool(False)
        /\ last.arg = "server" =>
              /\ last.out.server = last.prior
              /\ \A p \in Prefixes(last.prior.status) :
                    IsStatusPrefix(p, last.prior.status) =>
                        IF p \in DeferredSet THEN ReturnedBool(False)
                        ELSE /\ last.out.kind = "raise"
                             /\ last.out.exc.cls \notin ClientErrorClasses

C8_Witness ==
    /\ CheckedActive /\ last.arg = "server"
    /\ last.readExc = ServerFault503
    /\ last.prior.status = ERROR
    /\ last.out.kind = "raise"

\* C9: get_server never returns None: it returns the server as the provider
\* reports it or raises, and raises EntityNotFound for that server when the
\* provider says not-found.
C9_GetServerNeverAbsent ==
    last.op = "get_server" =>
        /\ last.out.kind = "return" =>
              /\ last.out.ret # None
              /\ provider[last.id].exists
              /\ last.out.server.id = last.id
              /\ last.out.server.status = provider[last.id].status
              /\ last.out.server.task_state = provider[last.id].task_state
              /\ last.out.server.fault = provider[last.id].fault
        /\ last.readExc.cls = "NotFound" =>
              /\ last.out.kind = "raise"
              /\ last.out.exc.cls = "EntityNotFound"
              /\ last.out.exc.detail.reason = <<"Server", last.id>>

C9_Witness ==
    /\ last.op = "get_server" /\ last.readExc.cls = "NotFound"
    /\ last.out.kind = "raise" /\ last.out.exc.cls = "EntityNotFound"

\* the outcome _check_active is to have on a plain status
ActiveOutcome(status) ==
    IF status \in DeferredSet THEN ReturnedBool(False)
    ELSE IF status = ACTIVE THEN ReturnedBool(True)
    ELSE last.out.kind = "raise"

\* the outcome check_delete_server_complete is to have on a plain status of
\* a server that is not being deleted
DeleteOutcome(status) ==
    IF status \in {DELETED, SOFT_DELETED} THEN ReturnedBool(True)
    ELSE IF status = ERROR THEN last.out.kind = "raise"
    ELSE ReturnedBool(False)

\* C10: a status with a parenthetical suffix gets from _check_active and
\* check_delete_server_complete the outcome of the status that precedes its
\* first "(".
C10_SuffixClassifiedAsPrefix ==
    (/\ CheckedActive \/ CheckedDelete
     /\ last.out.classified /\ HasParen(last.out.server.status)) =>
        \A p \in Prefixes(last.out.server.status) :
            IsStatusPrefix(p, last.out.server.status) =>
                IF CheckedActive THEN ActiveOutcome(p) ELSE DeleteOutcome(p)

C10_Witness ==
    /\ CheckedActive /\ last.out.classified
    /\ last.out.server.status = ACTIVE \o <<"(", "f">>
    /\ ReturnedBool(True)

\* C11 as stated: two statuses that differ only in letter case get the same
\* outcome from _check_active and from check_delete_server_complete, so a
\* status gets the outcome of its upper-case spelling.
C11_CaseNormalized ==
    ((CheckedActive \/ CheckedDelete) /\ last.out.classified) =>
        \A p \in Prefixes(last.out.server.status) :
            IsStatusPrefix(p, last.out.server.status) =>
                IF CheckedActive THEN ActiveOutcome(ToUpper(p))
                ELSE DeleteOutcome(ToUpper(p))

\* C11: the statuses are compared as they are spelled: a status with a
\* lower-case letter is none of the statuses the checks know, so
\* _check_active raises for it and check_delete_server_complete returns
\* False for it, whatever its upper-case spelling is.
C11_CaseSensitive ==
    ((CheckedActive \/ CheckedDelete) /\ last.out.classified) =>
        \A p \in Prefixes(last.out.server.status) :
            (IsStatusPrefix(p, last.out.server.status) /\ ToUpper(p) # p) =>
                IF CheckedActive THEN last.out.kind = "raise"
                ELSE ReturnedBool(False)

C11_Witness ==
    /\ CheckedActive /\ last.out.classified
    /\ last.out.server.status = active
    /\ last.out.kind = "raise"

\* C19 as stated: every call of _check_active and of
\* check_delete_server_complete makes exactly one read of the provider.
C19_ExactlyOneRead ==
    (CheckedActive \/ CheckedDelete) => last.out.reads = 1

\* C19: a call of check_delete_server_complete, of _check_active with an
\* identifier and of _check_active with a server object whose status is not
\* ACTIVE makes exactly one read of the provider; _check_active with a
\* server object whose status is ACTIVE makes none.
C19_OneReadUnlessActive ==
    (CheckedActive \/ CheckedDelete) =>
        IF last.arg = "server" /\ IsStatusPrefix(ACTIVE, last.prior.status)
        THEN last.out.reads = 0
        ELSE last.out.reads = 1

C19_Witness ==
    /\ CheckedActive /\ last.arg = "server"
    /\ last.prior.status = ACTIVE
    /\ last.out.reads = 0 /\ ReturnedBool(True)

----------------------------------------------------------------------------
\* Properties of the other operations

\* the JSON text of the values of the desired mappings
JsonText(value) ==
    CASE value.kind = "int" /\ value.val = 2 -> <<"2">>
      [] value.kind = "list" /\ value.val = <<1, 2>> ->
             <<"[", "1", ",", " ", "2", "]">>

\* the mapping of strings a desired mapping stands for
Serialized(desired) ==
    [k \in DOMAIN desired |->
        IF desired[k].kind = "str" THEN desired[k].val
        ELSE JsonText(desired[k])]

CallNames(calls) == [i \in 1..Len(calls) |-> calls[i].name]

\* C12: meta_update deletes exactly the keys of the server's metadata that
\* the desired mapping lacks, calls delete_meta only when there is such a
\* key, calls set_meta with the whole serialized desired mapping whatever
\* the difference is, and calls delete_meta before set_meta.
C12_DeleteThenSet ==
    (olast.op = "meta_update" /\ olast.arg.metadata.kind = "dict") =>
        LET current == olast.arg.server_metadata
            desired == olast.arg.metadata.val
            keysToDelete == DOMAIN current \ DOMAIN desired
            calls == olast.out.calls
            set == RemoteCall("set_meta", {}, Serialized(desired))
            del == RemoteCall("delete_meta", keysToDelete, EmptyDict) IN
        /\ keysToDelete = {} => calls = <<set>>
        /\ keysToDelete # {} => calls \in { <<del>>, <<del, set>> }
        /\ calls = <<del>> => olast.out.kind = "raise"
        /\ olast.out.kind = "return" => calls[Len(calls)] = set

C12_Witness ==
    /\ olast.op = "meta_update" /\ olast.out.kind = "return"
    /\ DOMAIN olast.arg.server_metadata = {"a", "b"}
    /\ olast.arg.metadata.kind = "dict"
    /\ DOMAIN olast.arg.metadata.val = {"b", "c"}
    /\ CallNames(olast.out.calls) = <<"delete_meta", "set_meta">>
    /\ olast.out.calls[1].keys = {"a"}
    /\ DOMAIN olast.out.calls[2].data = {"b", "c"}

\* C13: meta_serialize returns a mapping with the keys of its input in
\* which a string value is as it was and any other value is its JSON text;
\* on an input that is no mapping it raises StackValidationFailed.
C13_SerializeValues ==
    olast.op = "meta_serialize" =>
        IF olast.arg.metadata.kind = "dict"
        THEN /\ olast.out.kind = "return"
             /\ DOMAIN olast.out.val = DOMAIN olast.arg.metadata.val
             /\ \A k \in DOMAIN olast.arg.metadata.val :
                   LET v == olast.arg.metadata.val[k] IN
                   IF v.kind = "str" THEN olast.out.val[k] = v.val
                   ELSE olast.out.val[k] = JsonText(v)
        ELSE /\ olast.out.kind = "raise"
             /\ olast.out.exc.cls = "StackValidationFailed"

C13_Witness ==
    /\ olast.op = "meta_serialize" /\ olast.out.kind = "return"
    /\ olast.arg.metadata.kind = "dict"
    /\ DOMAIN olast.arg.metadata.val = {"a", "b"}
    /\ olast.arg.metadata.val["a"] = PyList(<<1, 2>>)
    /\ olast.arg.metadata.val["b"] = PyStr(<<"2">>)
    /\ olast.out.val["a"] = <<"[", "1", ",", " ", "2", "]">>
    /\ olast.out.val["b"] = <<"2">>

\* the file names of the attachments, as text
Filenames(attachments) ==
    [i \in 1..Len(attachments) |->
        <<attachments[i].filename.root, attachments[i].filename.ext>>]

\* C14: build_userdata with format RAW returns the userdata it was given
\* and builds no attachment, whatever metadata, userdata and instance_user
\* are.
C14_RawReturnsUserdata ==
    (olast.op = "build_userdata" /\ olast.arg.user_data_format = "RAW") =>
        /\ olast.out.kind = "return"
        /\ olast.out.val.result.kind = olast.arg.userdata.kind
        /\ olast.out.val.result = olast.arg.userdata
        /\ olast.out.val.attachments = <<>>

C14_Witness ==
    /\ olast.op = "build_userdata" /\ olast.arg.user_data_format = "RAW"
    /\ olast.arg.userdata = PyStr(<<"#!/bin/sh">>)
    /\ olast.arg.instance_user = "deploy"
    /\ Truthy(olast.arg.metadata)
    /\ olast.out.val.result = PyStr(<<"#!/bin/sh">>)

\* the file names the attachments of a format other than RAW have, in order
ExpectedFilenames(arg) ==
    LET toolchain == arg.user_data_format = "chef_validator_CFNTOOLS"
        software == arg.user_data_format = "SOFTWARE_CONFIG"
        provided == arg.metadata.kind = "dict"
                        /\ DOMAIN arg.metadata.val # {}
        user == IF toolchain THEN << <<"cfn-userdata", "">> >>
                ELSE IF ~software THEN <<>>
                ELSE IF arg.userdata.kind = "multipart-str"
                THEN [i \in 1..Len(arg.userdata.val) |->
                         <<arg.userdata.val[i].filename.root,
                           arg.userdata.val[i].filename.ext>>]
                ELSE << <<"userdata", "">> >> IN
    << <<"cloud-config", "">>, <<"boothook", ".sh">>,
       <<"part-handler", ".py">> >>
    \o user
    \o (IF toolchain THEN << <<"loguserdata", ".py">> >> ELSE <<>>)
    \o (IF provided THEN << <<"cfn-init-data", "">> >> ELSE <<>>)
    \o << <<"cfn-watch-server", "">> >>
    \o (IF toolchain
        THEN << <<"cfn-metadata-server", "">>, <<"cfn-boto-cfg", "">> >>
        ELSE <<>>)

\* C15: for a format other than RAW the attachments are, in this order:
\* config, boothook, part-handler, the user data (cfn-userdata for
\* CFNTOOLS, one userdata shell script for SOFTWARE_CONFIG user data that
\* is no multipart document), loguserdata for CFNTOOLS only, the metadata
\* when there is metadata, the watch server, and for CFNTOOLS only the
\* metadata server and the boto config; CFNTOOLS without metadata gives
\* the eight attachments of the example.
C15_AttachmentOrder ==
    (olast.op = "build_userdata" /\ olast.arg.user_data_format # "RAW") =>
        LET attachments == olast.out.val.attachments IN
        /\ Filenames(attachments) = ExpectedFilenames(olast.arg)
        /\ olast.out.val.result.kind = "multipart-str"
        /\ Len(olast.out.val.result.val) = Len(attachments)
        /\ \A i \in 1..Len(attachments) :
              olast.out.val.result.val[i].disposition
                  = <<"attachment", attachments[i].filename>>
        /\ (olast.arg.user_data_format = "SOFTWARE_CONFIG"
                /\ olast.arg.userdata.kind # "multipart-str") =>
               /\ attachments[4].subtype = "x-shellscript"
               /\ attachments[4].content.kind = olast.arg.userdata.kind
               /\ attachments[4].content = olast.arg.userdata
        /\ (olast.arg.user_data_format = "chef_validator_CFNTOOLS"
                /\ olast.arg.metadata.kind = "none") =>
               Filenames(attachments)
                   = << <<"cloud-config", "">>, <<"boothook", ".sh">>,
                        <<"part-handler", ".py">>, <<"cfn-userdata", "">>,
                        <<"loguserdata", ".py">>,
                        <<"cfn-watch-server", "">>,
                        <<"cfn-metadata-server", "">>,
                        <<"cfn-boto-cfg", "">> >>

C15_Witness ==
    /\ olast.op = "build_userdata"
    /\ olast.arg.user_data_format = "chef_validator_CFNTOOLS"
    /\ olast.arg.instance_user = "deploy"
    /\ olast.arg.metadata.kind = "dict" /\ DOMAIN olast.arg.metadata.val # {}
    /\ Len(olast.out.val.attachments) = 9
    /\ olast.out.val.attachments[6].filename = File("cfn-init-data", "")
    /\ olast.out.val.attachments[7].filename = File("cfn-watch-server", "")

\* C16: a lookup whose remote call ends in a BadRequest returns the message
\* of the error when the message holds "Unavailable console type", and
\* raises the error again when it does not.
C16_BadRequestHandling ==
    (/\ olast.op = "__getitem__"
     /\ olast.arg.key \in
            { "novnc", "xvpvnc", "spice-html5", "rdp-html5", "serial" }
     /\ olast.arg.reply.exc.cls = "BadRequest") =>
        LET msg == olast.arg.reply.exc.detail.reason IN
        IF \E i \in 1..(Len(msg) - 4) :
               SubSeq(msg, i, i + 4)
                   = <<"Unavailable", " ", "console", " ", "type">>
        THEN olast.out.kind = "return" /\ olast.out.val = msg
        ELSE olast.out.kind = "raise"
                 /\ olast.out.exc = olast.arg.reply.exc

C16_Witness ==
    /\ olast.op = "__getitem__" /\ olast.arg.key = "spice-html5"
    /\ olast.arg.reply.exc.cls = "BadRequest"
    /\ olast.out.kind = "return"
    /\ olast.out.val = <<"Unavailable", " ", "console", " ", "type", " ",
                         "spice-html5", ".">>

\* C17: building the ConsoleUrls object, its length and its iteration make
\* no remote call; each lookup of a console type makes exactly one remote
\* call, also when the lookup before it was of the same type; the length
\* is five and the iteration gives the five console types.
C17_LazyUncachedLookups ==
    /\ olast.op \in { "get_console_urls", "__len__", "__iter__" } =>
           olast.out.calls = <<>>
    /\ (/\ olast.op = "__getitem__"
        /\ olast.arg.key \in
               { "novnc", "xvpvnc", "spice-html5", "rdp-html5", "serial" })
           => /\ Len(olast.out.calls) = 1
              /\ olast.out.calls[1].keys = {olast.arg.key}
    /\ olast.op = "__len__" =>
           olast.out.kind = "return" /\ olast.out.val = 5
    /\ olast.op = "__iter__" =>
           /\ olast.out.kind = "return"
           /\ olast.out.val
                  = { "novnc", "xvpvnc", "spice-html5", "rdp-html5",
                      "serial" }

C17_Witness ==
    /\ olast.op = "__getitem__"
    /\ olast.arg.key = "novnc" /\ olast.arg.prior = "novnc"
    /\ olast.arg.reply.exc = NoExc
    /\ Len(olast.out.calls) = 1
    /\ olast.out.calls[1].name = "get_vnc_console"

\* C18: the filter calls the wrapped application only when the
\* authentication succeeded, and the request it hands on then carries the
\* identity status Confirmed and the project, user, roles and token
\* headers; when the user name is missing or the authentication ends in
\* Unauthorized, Forbidden, NotFound or AuthorizationFailure it answers
\* 401 with a WWW-Authenticate header that names the auth url, and does
\* not call the wrapped application.
C18_ForwardOnlyAuthenticated ==
    olast.op = "__call__" =>
        LET env == olast.arg.env
            reply == olast.arg.reply
            out == olast.out
            user == IF "HTTP_X_AUTH_USER" \in DOMAIN env
                    THEN env["HTTP_X_AUTH_USER"] ELSE "None"
            url == IF "HTTP_X_AUTH_URL" \in DOMAIN env
                   THEN env["HTTP_X_AUTH_URL"] ELSE "None"
            missing == user \in { "None", "" }
            failed == reply.exc.cls \in { "Unauthorized", "Forbidden",
                                          "NotFound",
                                          "AuthorizationFailure" } IN
        /\ (out.kind = "return" /\ out.val.app_called) =>
               /\ ~missing /\ reply.exc.cls = "None"
               /\ out.calls # <<>>
               /\ out.val.env["HTTP_X_IDENTITY_STATUS"] = "Confirmed"
               /\ out.val.env["HTTP_X_PROJECT_ID"] = "p1"
               /\ out.val.env["HTTP_X_PROJECT_NAME"] = "demo"
               /\ out.val.env["HTTP_X_USER_ID"] = "u1"
               /\ out.val.env["HTTP_X_USER_NAME"] = "alice"
               /\ out.val.env["HTTP_X_ROLES"] = <<"admin", ",", "member">>
               /\ out.val.env["HTTP_X_AUTH_TOKEN"] = "tok-1"
        /\ (missing \/ failed) =>
               /\ out.kind = "return"
               /\ ~out.val.app_called
               /\ out.val.status = 401
               /\ out.val.headers
                      = << <<"WWW-Authenticate",
                             <<"Keystone uri='", url, "'">> >> >>

C18_Witness ==
    /\ olast.op = "__call__"
    /\ olast.out.kind = "return" /\ olast.out.val.app_called
    /\ "version" \in DOMAIN olast.arg.reply.auth_ref
    /\ olast.out.val.env["HTTP_X_IDENTITY_STATUS"] = "Confirmed"
    /\ olast.out.val.env["HTTP_X_AUTH_KEY"] = "secret"

\* C20 as stated: every operation makes at most one provider call in an
\* invocation.
C20_AtMostOneCall ==
    olast.op # None => Len(olast.out.calls) <= 1

\* C20: every operation makes at most one provider call in an invocation,
\* but for meta_update, which makes two when there are keys to delete and
\* delete_meta did not raise, and get_nova_network_id, which makes two when
\* the identifier looks like a uuid and networks.get did not find it.
C20_AtMostTwoCalls ==
    olast.op # None =>
        LET n == Len(olast.out.calls) IN
        CASE olast.op = "meta_update" ->
                 /\ n <= 2
                 /\ n = 2 <=>
                        /\ olast.arg.metadata.kind = "dict"
                        /\ DOMAIN olast.arg.server_metadata
                               \ DOMAIN olast.arg.metadata.val # {}
                        /\ olast.arg.del_err.cls = "None"
          [] olast.op = "get_nova_network_id" ->
                 /\ n <= 2
                 /\ n = 2 <=>
                        /\ olast.arg.net_identifier = NetUuid
                        /\ olast.arg.get_reply.exc.cls = "NotFound"
          [] OTHER -> n <= 1

C20_Witness ==
    /\ olast.op = "get_nova_network_id"
    /\ olast.out.kind = "return"
    /\ CallNames(olast.out.calls) = <<"networks.get", "networks.find">>

\* C21 as stated: is_unprocessable_entity is true exactly for an error of
\* the client-error family whose http_status or whose code is 422, also
\* when its http_status is another value and its code is 422.
C21_EitherAttribute ==
    olast.op = "is_unprocessable_entity" =>
        LET ex == olast.arg.ex IN
        /\ olast.out.kind = "return"
        /\ olast.out.val = "True" <=>
               /\ ex.cls \in { "ClientException", "BadRequest" }
               /\ ex.http_status = 422 \/ ex.code = 422

\* C21: is_unprocessable_entity never raises, and is true exactly for an
\* error of the client-error family whose http_status is 422, or whose
\* http_status is missing, None or 0 and whose code is 422.
C21_FirstAttributeWins ==
    olast.op = "is_unprocessable_entity" =>
        LET ex == olast.arg.ex IN
        /\ olast.out.kind = "return"
        /\ olast.out.val \in { "True", "False" }
        /\ olast.out.val = "True" <=>
               /\ ex.cls \in { "ClientException", "BadRequest" }
               /\ \/ ex.http_status = 422
                  \/ ex.http_status \in { -1, 0 } /\ ex.code = 422

C21_Witness ==
    /\ olast.op = "is_unprocessable_entity"
    /\ olast.arg.ex.cls = "BadRequest"
    /\ olast.arg.ex.http_status = -1 /\ olast.arg.ex.code = 422
    /\ olast.out.val = "True"

\* C23: when meta_update returns and the server object held the metadata
\* the provider had, the provider's metadata is the serialized desired
\* mapping, with its keys and its values and no other key; when delete_meta
\* raises, set_meta is not called.
C23_MetadataConverges ==
    olast.op = "meta_update" =>
        /\ (olast.out.kind = "return" /\ olast.arg.fresh) =>
               /\ DOMAIN nova_metadata = DOMAIN olast.arg.metadata.val
               /\ nova_metadata = Serialized(olast.arg.metadata.val)
        /\ (/\ olast.out.calls # <<>>
            /\ olast.out.calls[1].name = "delete_meta"
            /\ olast.arg.del_err.cls # "None") =>
               /\ olast.out.kind = "raise"
               /\ CallNames(olast.out.calls) = <<"delete_meta">>

C23_Witness ==
    /\ olast.op = "meta_update" /\ olast.out.kind = "return"
    /\ olast.arg.fresh
    /\ DOMAIN olast.arg.server_metadata = {"a", "b"}
    /\ DOMAIN olast.arg.metadata.val = {"b", "c"}
    /\ olast.arg.metadata.val["c"] = PyList(<<1, 2>>)
    /\ DOMAIN nova_metadata = {"b", "c"}
    /\ nova_metadata["c"] = <<"[", "1", ",", " ", "2", "]">>

\* the provider as a poller alone would find it: its own server as its
\* call read it, and no other server
Alone(rec) == [i \in PollerIds |-> IF i = rec.id THEN rec.seen ELSE Gone]

\* C22: a polling call makes reads only and leaves what the provider
\* reports as it was, and the outcome each of two concurrent pollers on
\* different identifiers gets is the outcome the same call has alone on
\* what the provider reported for its server.
C22_PollersIndependent ==
    /\ [](\A p \in DOMAIN pollers :
            pollers[p].pc = "called" =>
                /\ pollers[p].out
                       = poll(pollers[p].op, Alone(pollers[p]),
                              pollers[p].id, pollers[p].err)
                /\ pollers[p].out.reads <= 1)
    /\ [][(pollers' # pollers) => (provider' = provider)]_vars

C22_Witness ==
    /\ pollers["p1"].pc = "called" /\ pollers["p2"].pc = "called"
    /\ pollers["p1"].op = "_check_active"
    /\ pollers["p2"].op = "check_delete_server_complete"
    /\ pollers["p1"].seen = Reports(ACTIVE, None)
    /\ pollers["p2"].seen = Gone
    /\ provider["1234"] = Reports(ERROR, None)
    /\ pollers["p1"].out.ret = "True" /\ pollers["p2"].out.ret = "True"

\* what the claim calls final for each check
FinalFor(op, st) ==
    IF op = "check_delete_server_complete"
    THEN \/ ~st.exists
         \/ /\ st.status \in { DELETED, SOFT_DELETED, ERROR }
            /\ st.task_state # "deleting"
    ELSE st.exists /\ st.status \notin DeferredSet

\* C24: a loop that calls check_delete_server_complete, or _check_active
\* with an identifier, until the call returns True or raises ends when from
\* some time on the provider reports a final outcome and no read ends in a
\* transient error; and no call returns True on a read that is not final.
C24_LoopEnds ==
    /\ \A p \in { "p1" } :
          (<>[](/\ FinalFor(pollers[p].op, provider[pollers[p].id])
                /\ ~TransientError(pollers[p].err)))
              => <>(pollers[p].pc = "ended")
    /\ [](\A p \in DOMAIN pollers :
            (/\ pollers[p].pc \in { "called", "ended" }
             /\ pollers[p].out.kind = "return"
             /\ pollers[p].out.ret = "True") =>
                /\ ~TransientError(pollers[p].err)
                /\ IF pollers[p].op = "check_delete_server_complete"
                   THEN \/ ~pollers[p].seen.exists
                        \/ /\ pollers[p].seen.status
                                  \in { DELETED, SOFT_DELETED }
                           /\ pollers[p].seen.task_state # "deleting"
                   ELSE /\ pollers[p].seen.exists
                        /\ pollers[p].seen.status = ACTIVE)

C24_Witness ==
    /\ pollers["p1"].pc = "ended" /\ pollers["p1"].again
    /\ pollers["p1"].op = "check_delete_server_complete"
    /\ pollers["p1"].out.kind = "return" /\ pollers["p1"].out.ret = "True"
    /\ pollers["p1"].seen = Reports(DELETED, None)

====
